---- MODULE Spec2Model ----
(***************************************************************************)
(* ComponentPool: a fixed-capacity pool of component records kept in two   *)
(* contiguous partitions (sleeping, then active), the control blocks that  *)
(* track each record's current slot, the block pool that hands the control *)
(* blocks out, and the generation-checked references callers hold.         *)
(*                                                                         *)
(* Pointers to control blocks are block indices 0..MAX_COMPONENTS-1 into   *)
(* the owning pool's _pool array; pointers to components are slot indices  *)
(* into _components.  Null is nullptr; Wild is a pointer value that does   *)
(* not designate an element of the array it is used with (an uninitialised *)
(* _control_table entry, or a value read from outside an array).           *)
(***************************************************************************)
EXTENDS Integers, FiniteSets, Sequences, TLC

\* Capacity of a pool (ComponentPool::MAX_COMPONENTS, scaled down).
MAX_COMPONENTS == 3

\* Number of successful Create calls a behaviour may make in total: with one
\* pool, and with two pools.
MaxRecords == 4
MaxRecordsTwo == 2

\* sizeof(ComponentReferenceControlBlock): three words and a flag byte, padded.
BlockSize == 32

Null == -1
Wild == -2

\* Range of size_t, scaled: a negative ptrdiff_t converted to size_t wraps to
\* a value far above every array bound.
SizeTRange == 1024 * 1024

IS_ACTIVE == "IS_ACTIVE"
PENDING_ACTIVE == "PENDING_ACTIVE"
PENDING_SLEEP == "PENDING_SLEEP"
PENDING_DELETE == "PENDING_DELETE"

Slots == 0 .. (MAX_COMPONENTS - 1)
Blocks == 0 .. (MAX_COMPONENTS - 1)
Records == 1 .. MaxRecords

VARIABLES
    pools,      \* store id -> the ComponentPool object
    pool_addr,  \* store id -> address of its _control_block_pool._pool[0]
    refs,       \* record id -> the ComponentReference Create returned for it
    created,    \* number of successful Create calls so far
    err,        \* the exception the last call threw, or "none"
    ticked,     \* the records whose Update(dt) the last call invoked
    applied     \* <<pool, block, flags>>: the blocks the last call took off the
                \* pending changes list, with the flags each had when it began

vars == <<pools, pool_addr, refs, created, err, ticked, applied>>

StoreIds == DOMAIN pools

RecordBudget == IF Cardinality(StoreIds) = 1 THEN MaxRecords ELSE MaxRecordsTwo

----------------------------------------------------------------------------
(* ComponentReferenceControlBlock *)

\* ComponentReferenceControlBlock( )
DefaultBlock == [next |-> Null, component |-> Null, tag |-> 0, flags |-> {}]

\* A constructor that starts every lifetime with tag 0 (faulty variant).
ConstructBlockFreshTag(b, component) ==
    [next |-> Null, component |-> component, tag |-> 0, flags |-> {IS_ACTIVE}]

\* ComponentReferenceControlBlock( void* component ): _tag is not initialised,
\* the storage keeps the value the previous lifetime left in it.
ConstructBlock(b, component) ==
    [next |-> Null, component |-> component, tag |-> b.tag, flags |-> {IS_ACTIVE}]

\* A destructor that leaves _tag as it was (faulty variant).
DestroyBlockKeepingTag(b) ==
    [next |-> Null, component |-> Null, tag |-> b.tag, flags |-> {}]

\* ~ComponentReferenceControlBlock( )
DestroyBlock(b) ==
    [next |-> Null, component |-> Null, tag |-> b.tag + 1, flags |-> {}]

IsComponentActive(b) == IS_ACTIVE \in b.flags

SetComponentActive(b, new_active) ==
    [b EXCEPT !.flags = (@ \ {IS_ACTIVE})
                          \cup (IF new_active THEN {IS_ACTIVE} ELSE {})]

\* A request that flips the Active flag at once (faulty variant).
MarkActiveStateChangeAtOnce(b, new_active) ==
    [b EXCEPT !.flags = (@ \ {IS_ACTIVE})
                          \cup (IF new_active THEN {IS_ACTIVE} ELSE {})]

MarkActiveStateChange(b, new_active) ==
    [b EXCEPT !.flags = @ \cup {IF new_active THEN PENDING_ACTIVE
                                               ELSE PENDING_SLEEP}]

IsPendingChanges(b) ==
    (PENDING_ACTIVE \in b.flags) \/ (PENDING_SLEEP \in b.flags)
        \/ (PENDING_DELETE \in b.flags)

IsPendingActiveStateChange(b) ==
    (PENDING_ACTIVE \in b.flags) \/ (PENDING_SLEEP \in b.flags)

GetPendingActiveStateChange(b) == PENDING_ACTIVE \in b.flags

\* A clearing step that takes off PENDING_DELETE only (faulty variant).
ClearPendingChangesKeepingActivation(b) ==
    [b EXCEPT !.flags = @ \ {PENDING_DELETE}]

ClearPendingChanges(b) ==
    [b EXCEPT !.flags = @ \ {PENDING_ACTIVE, PENDING_SLEEP, PENDING_DELETE}]

MarkForDeletion(b) == [b EXCEPT !.flags = @ \cup {PENDING_DELETE}]

\* A deletion test that also answers yes for a pending sleep, and one that
\* answers no when an activation change is pending too (faulty variants).
IsPendingDeletionOrSleep(b) ==
    (PENDING_DELETE \in b.flags) \/ (PENDING_SLEEP \in b.flags)

IsPendingDeletionAlone(b) ==
    /\ PENDING_DELETE \in b.flags
    /\ b.flags \cap {PENDING_ACTIVE, PENDING_SLEEP} = {}

IsPendingDeletion(b) == PENDING_DELETE \in b.flags

GetGarbageTag(b) == b.tag

GetComponentPtr(b) == b.component

----------------------------------------------------------------------------
(* CRCBPool *)

\* A constructor that leaves every _next null (faulty variant).
InitBlocksUnlinked == [i \in Blocks |-> DefaultBlock]

\* CRCBPool( ): every block default-constructed, then threaded on the free list.
InitBlocks ==
    [i \in Blocks |->
        [DefaultBlock EXCEPT !.next = IF i < MAX_COMPONENTS - 1 THEN i + 1
                                                                 ELSE Null]]

\* The address of block i of the pool whose _pool[0] is at base.
BlockAddr(base, i) == IF i = Null THEN 0 ELSE base + i * BlockSize

\* A membership test without the lower bound (faulty variant).
IsPointerValidNoLowerBound(base, ptr) ==
    LET offset == (ptr - base) \div BlockSize
    IN  ~ (\/ ptr = 0
           \/ offset >= MAX_COMPONENTS
           \/ BlockAddr(base, offset) # ptr)

\* CRCBPool::IsPointerValid, on addresses.
IsPointerValid(base, ptr) ==
    LET offset == (ptr - base) \div BlockSize
    IN  ~ (\/ ptr = 0
           \/ (offset < 0 \/ offset >= MAX_COMPONENTS)
           \/ BlockAddr(base, offset) # ptr)

\* An Allocate that hands out the head of the free list without popping it
\* (faulty variant).
AllocateKeepingHead(st) == st

\* CRCBPool::Allocate, once _pool_head is known to be non-null.
Allocate(st) == [st EXCEPT !.pool_head = st.blocks[st.pool_head].next]

\* A Deallocate that makes the block the head without linking it to the old
\* head (faulty variant).
DeallocateDroppingList(st, item) == [st EXCEPT !.pool_head = item]

\* A Deallocate that does not put the block back (faulty variant).
DeallocateNothing(st, item) == st

\* CRCBPool::Deallocate of a block of this pool.
Deallocate(st, item) ==
    [st EXCEPT !.blocks[item].next = st.pool_head, !.pool_head = item]

\* CRCBPool::Construct / CRCBPool::Destroy
Construct(st, p, component) ==
    [st EXCEPT !.blocks[p] = ConstructBlock(@, component)]

Destroy(st, p) == [st EXCEPT !.blocks[p] = DestroyBlock(@)]

----------------------------------------------------------------------------
(* ComponentReference *)

\* ComponentReference( ): the null reference.
NullRef == [pool |-> 0, context |-> Null, tag |-> 0]

\* ComponentReference( ComponentReferenceControlBlock *context )
MakeRef(p, st, context) ==
    [pool |-> p, context |-> context, tag |-> GetGarbageTag(st.blocks[context])]

\* A validity test that compares no tags (faulty variant).
IsValidNonNull(ref) == ref.context # Null

\* ComponentReference::IsValid
IsValid(ref) ==
    /\ ref.context # Null
    /\ ref.tag = GetGarbageTag(pools[ref.pool].blocks[ref.context])

\* ComponentReference::Get: the component pointer, or "throws".
Get(ref) ==
    IF ~ IsValid(ref)
    THEN [throws |-> TRUE, ptr |-> Null]
    ELSE [throws |-> FALSE,
          ptr |-> GetComponentPtr(pools[ref.pool].blocks[ref.context])]

\* operator==( lhs, rhs ): lhs.Get( ) == rhs.Get( ); throws when either Get
\* throws.  A component pointer is a slot of the pool of the reference.
Equals(lhs, rhs) ==
    IF Get(lhs).throws \/ Get(rhs).throws
    THEN [throws |-> TRUE, value |-> FALSE]
    ELSE [throws |-> FALSE,
          value |-> <<lhs.pool, Get(lhs).ptr>> = <<rhs.pool, Get(rhs).ptr>>]

\* The address held in ref._context.
ContextAddr(ref) ==
    IF ref.context = Null THEN 0
    ELSE BlockAddr(pool_addr[ref.pool], ref.context)

----------------------------------------------------------------------------
(* ComponentPool *)

\* ComponentPool( ): _components and _control_table are not initialised.
\* ub records whether an undefined access has happened in this pool: "none",
\* "garbage" (the program carried on) or "crash" (the process ended).
InitPool ==
    [pool_head |-> 0,
     blocks |-> InitBlocks,
     components |-> [i \in Slots |-> 0],
     control_table |-> [i \in Slots |-> Wild],
     pending_changes_head |-> Null,
     num_active |-> 0,
     num_sleeping |-> 0,
     ub |-> "none"]

Count(st) == st.num_active + st.num_sleeping

\* A capacity test that lets one record too many in (faulty variant).
LimitExceeded(st) == st.num_active + st.num_sleeping > MAX_COMPONENTS

\* The capacity test of ComponentPool::Create.
LimitReached(st) == Count(st) = MAX_COMPONENTS

\* ptrdiff_t to size_t
ToSizeT(d) == IF d < 0 THEN d + SizeTRange ELSE d

\* component - std::addressof( _components [ base ] ), as the size_t the swap takes
IndexFrom(component, base) ==
    IF component \in Slots THEN ToSizeT(component - base) ELSE SizeTRange - 1

InArray(i) == i >= 0 /\ i < MAX_COMPONENTS

\* What _components[i], _control_table[i] and p->_component read; an access
\* outside the arrays or through a wild pointer reads an unrelated value.
ReadComponent(st, i) == IF InArray(i) THEN st.components[i] ELSE 0
ReadTable(st, i) == IF InArray(i) THEN st.control_table[i] ELSE Wild
ReadPtr(st, p) == IF p \in Blocks THEN st.blocks[p].component ELSE Wild

SwapIsDefined(st, loc_index, target_index) ==
    /\ InArray(loc_index) /\ InArray(target_index)
    /\ st.control_table[loc_index] \in Blocks
    /\ st.control_table[target_index] \in Blocks

\* A swap that exchanges the records and the cached pointers but leaves the
\* slot table as it was (faulty variant).
SwapStatementsKeepingTable(st, loc_index, target_index) ==
    LET pl == IF loc_index \in 0 .. (MAX_COMPONENTS - 1)
              THEN st.control_table[loc_index] ELSE Wild
        pt == IF target_index \in 0 .. (MAX_COMPONENTS - 1)
              THEN st.control_table[target_index] ELSE Wild
    IN  [st EXCEPT
           !.components = [i \in Slots |->
                IF i = loc_index /\ target_index \in Slots
                    THEN st.components[target_index]
                ELSE IF i = target_index /\ loc_index \in Slots
                    THEN st.components[loc_index]
                ELSE st.components[i]],
           !.blocks = [b \in Blocks |->
                IF b = pl /\ pt \in Blocks /\ b # pt
                    THEN [st.blocks[b] EXCEPT !.component = st.blocks[pt].component]
                ELSE IF b = pt /\ pl \in Blocks /\ b # pl
                    THEN [st.blocks[b] EXCEPT !.component = st.blocks[pl].component]
                ELSE st.blocks[b]]]

\* The three std::swap statements of SwapComponents, in order.  Writes that
\* land outside the arrays are outside the modelled state.
SwapStatements(st, loc_index, target_index) ==
    LET pl == ReadTable(st, loc_index)
        pt == ReadTable(st, target_index)
        comps == [i \in Slots |->
                    IF i = loc_index THEN ReadComponent(st, target_index)
                    ELSE IF i = target_index THEN ReadComponent(st, loc_index)
                    ELSE st.components[i]]
        blks == [b \in Blocks |->
                    IF b = pl /\ b = pt THEN st.blocks[b]
                    ELSE IF b = pl
                        THEN [st.blocks[b] EXCEPT !.component = ReadPtr(st, pt)]
                    ELSE IF b = pt
                        THEN [st.blocks[b] EXCEPT !.component = ReadPtr(st, pl)]
                    ELSE st.blocks[b]]
        tbl == [i \in Slots |->
                    IF i = loc_index THEN pt
                    ELSE IF i = target_index THEN pl
                    ELSE st.control_table[i]]
    IN  [st EXCEPT !.components = comps, !.blocks = blks, !.control_table = tbl]

\* ComponentPool::SwapComponents.  An index outside the arrays or a wild table
\* entry makes the swap undefined: the build either faults (outcome "crash",
\* the state is left as it was and the process ends) or carries on with
\* whatever the out-of-bounds locations held (outcome "garbage").
SwapComponents(st, loc_index, target_index, outcome) ==
    IF loc_index = target_index THEN st
    ELSE IF SwapIsDefined(st, loc_index, target_index)
        THEN SwapStatements(st, loc_index, target_index)
    ELSE IF outcome = "crash" THEN [st EXCEPT !.ub = "crash"]
    ELSE [SwapStatements(st, loc_index, target_index) EXCEPT !.ub = "garbage"]

\* The two indices ComponentPool::SetActiveInternal passes to SwapComponents:
\* the wake branch takes the record's index from _components[0], the sleep
\* branch from _components[_num_sleeping_components].
SetActiveLocIndex(st, context, new_active) ==
    IF new_active
    THEN IndexFrom(st.blocks[context].component, 0)
    ELSE IndexFrom(st.blocks[context].component, st.num_sleeping)

SetActiveTargetIndex(st, new_active) ==
    IF new_active THEN ToSizeT(st.num_sleeping - 1) ELSE st.num_sleeping

\* ComponentPool::SetActiveInternal
SetActiveInternal(st, context, new_active, outcome) ==
    IF new_active = IsComponentActive(st.blocks[context]) THEN st
    ELSE
      LET loc_index == SetActiveLocIndex(st, context, new_active)
          target_index == SetActiveTargetIndex(st, new_active)
          swapped == SwapComponents(st, loc_index, target_index, outcome)
      IN  IF swapped.ub = "crash" THEN swapped
          ELSE [swapped EXCEPT
                  !.num_sleeping = IF new_active THEN @ - 1 ELSE @ + 1,
                  !.num_active = IF new_active THEN @ + 1 ELSE @ - 1,
                  !.blocks[context] = SetComponentActive(@, new_active)]

\* A deletion that forgets to decrement _num_active_components (faulty variant).
DeleteInternalKeepingCount(st, context, outcome) ==
    LET woken == SetActiveInternal(st, context, TRUE, outcome)
        component == woken.blocks[context].component
        loc_index == IndexFrom(component, 0)
        target_index == ToSizeT(woken.num_active + woken.num_sleeping - 1)
        swapped == SwapComponents(woken, loc_index, target_index, outcome)
    IN  IF woken.ub = "crash" THEN woken
        ELSE IF swapped.ub = "crash" THEN swapped
        ELSE [swapped EXCEPT
                !.components = [i \in Slots |->
                                  IF i = target_index THEN 0 ELSE @[i]]]

\* The two indices ComponentPool::DeleteInternal passes to SwapComponents once
\* the record is awake; the second is also the index of the record it destroys.
DeleteLocIndex(woken, context) == IndexFrom(woken.blocks[context].component, 0)

DeleteTargetIndex(woken) == ToSizeT(Count(woken) - 1)

\* ComponentPool::DeleteInternal
DeleteInternal(st, context, outcome) ==
    LET woken == SetActiveInternal(st, context, TRUE, outcome)
        loc_index == DeleteLocIndex(woken, context)
        target_index == DeleteTargetIndex(woken)
        swapped == SwapComponents(woken, loc_index, target_index, outcome)
    IN  IF woken.ub = "crash" THEN woken
        ELSE IF swapped.ub = "crash" THEN swapped
        ELSE [swapped EXCEPT
                !.components = [i \in Slots |->
                                  IF i = target_index THEN 0 ELSE @[i]],
                !.num_active = @ - 1]

\* The indices one call of SetActiveInternal uses, each with the number of
\* occupied slots at that moment.
SetActiveIndices(st, context, new_active) ==
    IF new_active = IsComponentActive(st.blocks[context]) THEN {}
    ELSE {<<SetActiveLocIndex(st, context, new_active), Count(st)>>,
          <<SetActiveTargetIndex(st, new_active), Count(st)>>}

\* The indices one call of DeleteInternal uses, likewise.
DeleteIndices(st, context, outcome) ==
    LET woken == SetActiveInternal(st, context, TRUE, outcome)
    IN  SetActiveIndices(st, context, TRUE)
          \cup (IF woken.ub = "crash" THEN {}
                ELSE {<<DeleteLocIndex(woken, context), Count(woken)>>,
                      <<DeleteTargetIndex(woken), Count(woken)>>})

\* The indices one turn of the loop of LateUpdate uses.
StepIndices(st, outcome) ==
    LET control == st.pending_changes_head
    IN  IF IsPendingDeletion(st.blocks[control])
        THEN DeleteIndices(st, control, outcome)
        ELSE IF IsPendingActiveStateChange(st.blocks[control])
        THEN SetActiveIndices(st, control,
                 GetPendingActiveStateChange(st.blocks[control]))
        ELSE {}

\* One turn of the loop of ComponentPool::LateUpdate: pops the head of the
\* pending changes list and applies the block's request.
LateUpdateStep(st, outcome) ==
    LET control == st.pending_changes_head
        popped == [st EXCEPT
                     !.pending_changes_head = st.blocks[control].next]
    IN  IF IsPendingDeletion(popped.blocks[control])
        THEN LET deleted == DeleteInternal(popped, control, outcome)
             IN  IF deleted.ub = "crash" THEN deleted
                 ELSE Deallocate(Destroy(deleted, control), control)
        ELSE IF IsPendingActiveStateChange(popped.blocks[control])
        THEN LET changed ==
                   SetActiveInternal(popped, control,
                      GetPendingActiveStateChange(popped.blocks[control]),
                      outcome)
             IN  IF changed.ub = "crash" THEN changed
                 ELSE [changed EXCEPT
                         !.blocks[control] = ClearPendingChanges(@)]
        ELSE popped

\* The loop of ComponentPool::LateUpdate.
RECURSIVE LateUpdateLoop(_, _)
LateUpdateLoop(st, outcome) ==
    IF st.ub = "crash" \/ st.pending_changes_head = Null THEN st
    ELSE LateUpdateLoop(LateUpdateStep(st, outcome), outcome)

\* The blocks whose requests the loop of LateUpdate applies, in the order in
\* which it applies them; a turn that faults applies nothing.
RECURSIVE LateUpdateOrder(_, _)
LateUpdateOrder(st, outcome) ==
    IF st.ub = "crash" \/ st.pending_changes_head = Null THEN << >>
    ELSE LET turned == LateUpdateStep(st, outcome)
         IN  IF turned.ub = "crash" THEN << >>
             ELSE <<st.pending_changes_head>> \o LateUpdateOrder(turned, outcome)

\* The indices a whole LateUpdate uses.
RECURSIVE LateUpdateIndices(_, _)
LateUpdateIndices(st, outcome) ==
    IF st.ub = "crash" \/ st.pending_changes_head = Null THEN {}
    ELSE StepIndices(st, outcome)
           \cup LateUpdateIndices(LateUpdateStep(st, outcome), outcome)

\* The blocks on the pending changes list: those the loop of LateUpdate pops.
RECURSIVE ListFrom(_, _, _)
ListFrom(st, b, fuel) ==
    IF b \notin Blocks \/ fuel = 0 THEN {}
    ELSE {b} \cup ListFrom(st, st.blocks[b].next, fuel - 1)

PendingBlocks(st) == ListFrom(st, st.pending_changes_head, MAX_COMPONENTS)

\* The blocks on the free list of the block pool.
FreeBlocks(st) == ListFrom(st, st.pool_head, MAX_COMPONENTS)

\* The records ComponentPool::Update visits, in slot order.
UpdateTicks(st) ==
    {st.components[i] : i \in {j \in Slots : j >= st.num_sleeping /\ j < Count(st)}}

----------------------------------------------------------------------------
(* The calls a client makes *)

\* A behaviour is followed up to the return of the call in which an undefined
\* access happened (or to the fault): what the process does after it is not
\* determined by the source.
Running == \A q \in StoreIds : pools[q].ub = "none"

\* The call throws std::runtime_error before it changes anything.
Throws(kind) ==
    /\ err' = kind
    /\ ticked' = {}
    /\ applied' = {}
    /\ UNCHANGED <<pools, pool_addr, refs, created>>

\* ComponentPool::Create; ctor_throws: the component's constructor throws.
Create(p, ctor_throws) ==
    /\ Running
    /\ LET st == pools[p]
           count == Count(st)
       IN  IF LimitReached(st) THEN Throws("CapacityExceeded")
           ELSE IF st.pool_head = Null THEN Throws("PoolExhausted")
           ELSE
             LET control_block == st.pool_head
                 allocated == Allocate(st)
             IN  IF ctor_throws
                 THEN /\ pools' = [pools EXCEPT
                                     ![p] = Deallocate(allocated, control_block)]
                      /\ err' = "ConstructorFailed"
                      /\ ticked' = {}
                      /\ applied' = {}
                      /\ UNCHANGED <<pool_addr, refs, created>>
                 ELSE /\ created < RecordBudget
                      /\ LET id == created + 1
                             bound == [Construct(allocated, control_block, count)
                                         EXCEPT !.components[count] = id,
                                                !.control_table[count] = control_block,
                                                !.num_active = @ + 1]
                         IN  /\ pools' = [pools EXCEPT ![p] = bound]
                             /\ refs' = [refs EXCEPT
                                           ![id] = MakeRef(p, bound, control_block)]
                             /\ created' = id
                      /\ err' = "none"
                      /\ ticked' = {}
                      /\ applied' = {}
                      /\ UNCHANGED pool_addr

\* A queueing step that pushes the block whether or not it is queued already
\* (faulty variant).
EnqueueAlways(st, context) ==
    [st EXCEPT !.blocks[context].next = st.pending_changes_head,
               !.pending_changes_head = context]

\* Adds context to the pending changes list unless it is on it already
\* (ComponentPool::SetActive and ComponentPool::Delete, the same statements).
Enqueue(st, context) ==
    IF IsPendingChanges(st.blocks[context]) THEN st
    ELSE [st EXCEPT !.blocks[context].next = st.pending_changes_head,
                    !.pending_changes_head = context]

\* A request that queues and marks without looking at the current state
\* (faulty variant).
SetActiveRequestAlways(st, context, new_active) ==
    LET queued == Enqueue(st, context)
    IN  [queued EXCEPT !.blocks[context] = MarkActiveStateChange(@, new_active)]

\* ComponentPool::SetActive once the reference has passed both checks: nothing
\* when the record is in the requested state already, else queue and mark.
SetActiveRequest(st, context, new_active) ==
    IF new_active = IsComponentActive(st.blocks[context]) THEN st
    ELSE LET queued == Enqueue(st, context)
         IN  [queued EXCEPT !.blocks[context] =
                  MarkActiveStateChange(@, new_active)]

\* ComponentPool::Delete once the reference has passed both checks.
DeleteRequest(st, context) ==
    LET queued == Enqueue(st, context)
    IN  [queued EXCEPT !.blocks[context] = MarkForDeletion(@)]

\* ComponentPool::SetActive
SetActive(p, component, new_active) ==
    /\ Running
    /\ IF ~ IsValid(component) THEN Throws("InvalidHandle")
       ELSE IF ~ IsPointerValid(pool_addr[p], ContextAddr(component))
           THEN Throws("ForeignHandle")
       ELSE /\ pools' = [pools EXCEPT ![p] =
                   SetActiveRequest(pools[p], component.context, new_active)]
            /\ err' = "none"
            /\ ticked' = {}
            /\ applied' = {}
            /\ UNCHANGED <<pool_addr, refs, created>>

\* ComponentPool::Delete
Delete(p, component) ==
    /\ Running
    /\ IF ~ IsValid(component) THEN Throws("InvalidHandle")
       ELSE IF ~ IsPointerValid(pool_addr[p], ContextAddr(component))
           THEN Throws("ForeignHandle")
       ELSE /\ pools' = [pools EXCEPT ![p] =
                   DeleteRequest(pools[p], component.context)]
            /\ err' = "none"
            /\ ticked' = {}
            /\ applied' = {}
            /\ UNCHANGED <<pool_addr, refs, created>>

\* ComponentPool::Update
Update(p) ==
    /\ Running
    /\ ticked' = UpdateTicks(pools[p])
    /\ err' = "none"
    /\ applied' = {}
    /\ UNCHANGED <<pools, pool_addr, refs, created>>

\* ComponentPool::LateUpdate; outcome: what an undefined swap does, if one occurs.
LateUpdate(p, outcome) ==
    /\ Running
    /\ pools' = [pools EXCEPT ![p] = LateUpdateLoop(pools[p], outcome)]
    /\ applied' = {<<p, b, pools[p].blocks[b].flags>> :
                        b \in PendingBlocks(pools[p])}
    /\ err' = "none"
    /\ ticked' = {}
    /\ UNCHANGED <<pool_addr, refs, created>>

UbOutcomes == {"crash", "garbage"}

\* Where the first pool's _pool array lies, and the places a second pool's
\* array can lie relative to it: behind it at a distance that is a multiple of
\* the block size or at one that is not, or in front of it likewise.
FirstPoolAddr == 64 * BlockSize
PoolSpan == MAX_COMPONENTS * BlockSize
SecondPoolAddrs ==
    {FirstPoolAddr + 2 * PoolSpan,
     FirstPoolAddr + 2 * PoolSpan + 8,
     FirstPoolAddr - 2 * PoolSpan,
     FirstPoolAddr - 2 * PoolSpan - 8}

\* One pool, as in _tmain.
Init ==
    /\ pools = [p \in {1} |-> InitPool]
    /\ pool_addr = [p \in {1} |-> FirstPoolAddr]
    /\ refs = [r \in Records |-> NullRef]
    /\ created = 0
    /\ err = "none"
    /\ ticked = {}
    /\ applied = {}

\* Two pools in one process.
InitTwo ==
    /\ pools = [p \in {1, 2} |-> InitPool]
    /\ \E a \in SecondPoolAddrs :
          pool_addr = [p \in {1, 2} |-> IF p = 1 THEN FirstPoolAddr ELSE a]
    /\ refs = [r \in Records |-> NullRef]
    /\ created = 0
    /\ err = "none"
    /\ ticked = {}
    /\ applied = {}

Next ==
    \/ \E p \in StoreIds, ctor_throws \in BOOLEAN : Create(p, ctor_throws)
    \/ \E p \in StoreIds, r \in Records, new_active \in BOOLEAN :
          SetActive(p, refs[r], new_active)
    \/ \E p \in StoreIds, r \in Records : Delete(p, refs[r])
    \/ \E p \in StoreIds : Update(p)
    \/ \E p \in StoreIds, outcome \in UbOutcomes : LateUpdate(p, outcome)

Spec == Init /\ [][Next]_vars

SpecTwo == InitTwo /\ [][Next]_vars

----------------------------------------------------------------------------
(* The block pool used on its own: a client that allocates blocks and gives *)
(* back blocks it holds.  refs[r].context is the block the r-th successful  *)
(* Allocate returned, until the client deallocates it.                      *)

\* CRCBPool::Allocate( 1 )
PoolAllocate(p) ==
    LET st == pools[p]
    IN  IF st.pool_head = Null THEN Throws("PoolExhausted")
        ELSE /\ created < RecordBudget
             /\ pools' = [pools EXCEPT ![p] = Allocate(st)]
             /\ refs' = [refs EXCEPT ![created + 1] =
                            [pool |-> p, context |-> st.pool_head, tag |-> 0]]
             /\ created' = created + 1
             /\ err' = "none"
             /\ ticked' = {}
             /\ applied' = {}
             /\ UNCHANGED pool_addr

\* CRCBPool::Deallocate( pool_item, 1 ) of the block held as refs[r]
PoolDeallocate(p, r) ==
    /\ refs[r].context # Null
    /\ refs[r].pool = p
    /\ IF ~ IsPointerValid(pool_addr[p], ContextAddr(refs[r]))
       THEN Throws("InvalidPointer")
       ELSE /\ pools' = [pools EXCEPT ![p] = Deallocate(pools[p], refs[r].context)]
            /\ refs' = [refs EXCEPT ![r] = NullRef]
            /\ err' = "none"
            /\ ticked' = {}
            /\ applied' = {}
            /\ UNCHANGED <<pool_addr, created>>

NextPool ==
    \/ \E p \in StoreIds : PoolAllocate(p)
    \/ \E p \in StoreIds, r \in Records : PoolDeallocate(p, r)

SpecPool == Init /\ [][NextPool]_vars

\* The blocks the client of the block pool currently holds.
Allocated(p) == {refs[r].context : r \in {x \in Records : refs[x].context # Null
                                                          /\ refs[x].pool = p}}

----------------------------------------------------------------------------
(* Vocabulary of the properties *)

\* The control block a reference points to (the reference is not null).
RefBlock(r) == pools[refs[r].pool].blocks[refs[r].context]

\* Record r is held in an occupied slot of the pool that created it.
Live(r) ==
    /\ refs[r].context # Null
    /\ \E i \in Slots : /\ i < Count(pools[refs[r].pool])
                        /\ pools[refs[r].pool].components[i] = r

\* The last call was a LateUpdate that found r's block queued with flag f set.
AppliedWith(r, f) ==
    /\ refs[r].context # Null
    /\ \E a \in applied : /\ a[1] = refs[r].pool
                          /\ a[2] = refs[r].context
                          /\ f \in a[3]

\* The last call was a LateUpdate of r's pool that returned.
LateUpdateReturned(r) ==
    /\ refs[r].context # Null
    /\ \E a \in applied : a[1] = refs[r].pool
    /\ pools[refs[r].pool].ub # "crash"

----------------------------------------------------------------------------
\* C1: a reference returned by Create is valid at once, and a valid reference
\* stays valid across every call (Create, SetActive, Delete, also of its own
\* record while only queued, Update, LateUpdate) except a LateUpdate that finds
\* its own block queued for deletion.
C1_ValidUntilOwnDeleteApplied ==
    [][\A r \in Records :
         /\ (created' = r /\ created # r) => IsValid(refs[r])'
         /\ (IsValid(refs[r]) /\ ~ AppliedWith(r, PENDING_DELETE)')
               => IsValid(refs[r])']_vars

\* A valid reference to a record on a reused block whose own deletion is
\* queued, in a pool that also holds a sleeping record.
C1_Witness ==
    \E r \in Records :
        /\ IsValid(refs[r])
        /\ PENDING_DELETE \in RefBlock(r).flags
        /\ refs[r].tag > 0
        /\ pools[refs[r].pool].num_sleeping > 0

\* C2: in every reachable state, Get on a valid reference returns the slot that
\* holds the record the reference was created for.
C2_GetResolvesOwnRecord ==
    \A r \in Records :
        IsValid(refs[r]) =>
            LET g == Get(refs[r])
                st == pools[refs[r].pool]
            IN  /\ ~ g.throws
                /\ g.ptr \in Slots
                /\ g.ptr < Count(st)
                /\ st.components[g.ptr] = r

\* C3: once a LateUpdate that found a valid reference's block queued for
\* deletion has returned, the reference is invalid and Get on it throws; when a
\* later Create reuses the block, the new reference is valid and resolves to the
\* new record, and every older reference to that block is invalid (its tag
\* differs from the block's).
C3_DeletedThenReused ==
    [][\A r \in Records :
         /\ (IsValid(refs[r]) /\ AppliedWith(r, PENDING_DELETE)'
                /\ LateUpdateReturned(r)')
               => (~ IsValid(refs[r])' /\ Get(refs[r])'.throws)
         /\ (created' = r /\ created # r)
               => /\ IsValid(refs[r])'
                  /\ (pools[refs[r].pool].components[Get(refs[r]).ptr] = r)'
         /\ \A old \in Records :
              (/\ old < r
               /\ refs[r].context # Null
               /\ refs[old].pool = refs[r].pool
               /\ refs[old].context = refs[r].context)'
                 => (/\ ~ IsValid(refs[old])
                     /\ Get(refs[old]).throws
                     /\ refs[old].tag # RefBlock(r).tag)']_vars

\* A block that was reused: the newer reference valid and resolving to its
\* record, the older one to the same block invalid.
C3_Witness ==
    \E r \in Records, old \in Records :
        /\ old < r
        /\ refs[r].context # Null
        /\ refs[old].pool = refs[r].pool
        /\ refs[old].context = refs[r].context
        /\ IsValid(refs[r]) /\ Live(r)
        /\ ~ IsValid(refs[old])

\* C4: when a LateUpdate (free of undefined accesses) returns that found a
\* valid reference's block queued to sleep and not for deletion, the next Update
\* does not tick its record; when it found the block queued to wake, the next
\* Update ticks it.
C4_SleepStopsTicksWakeResumes ==
    [][\A r \in Records :
         (/\ IsValid(refs[r])
          /\ LateUpdateReturned(r)'
          /\ ~ AppliedWith(r, PENDING_DELETE)'
          /\ pools'[refs[r].pool].ub = "none")
            => /\ AppliedWith(r, PENDING_SLEEP)'
                    => r \notin UpdateTicks(pools'[refs[r].pool])
               /\ AppliedWith(r, PENDING_ACTIVE)'
                    => r \in UpdateTicks(pools'[refs[r].pool])]_vars

\* C5: a LateUpdate (free of undefined accesses) does not change whether Update
\* ticks a live record whose block was not on the pending changes list.
C5_UnqueuedRecordsKeepTicking ==
    [][\A r \in Records :
         (/\ IsValid(refs[r])
          /\ LateUpdateReturned(r)'
          /\ RefBlock(r).flags \cap {PENDING_ACTIVE, PENDING_SLEEP, PENDING_DELETE} = {}
          /\ pools'[refs[r].pool].ub = "none")
            => (r \in UpdateTicks(pools'[refs[r].pool])
                  <=> r \in UpdateTicks(pools[refs[r].pool]))]_vars

\* The blocks of pool p that the LateUpdate just taken found queued for deletion.
DeletedBy(p) == {a[2] : a \in {x \in applied : x[1] = p /\ PENDING_DELETE \in x[3]}}
QueuedBy(p) == {a[2] : a \in {x \in applied : x[1] = p}}

\* Pool st with the pending activation flags taken off every block that is
\* queued for deletion.
WithoutActivationRequests(st) ==
    [st EXCEPT !.blocks =
        [b \in Blocks |->
            IF PENDING_DELETE \in st.blocks[b].flags
            THEN [st.blocks[b] EXCEPT
                    !.flags = @ \ {PENDING_ACTIVE, PENDING_SLEEP}]
            ELSE st.blocks[b]]]

\* C6: a LateUpdate that found a block queued both for an activation change
\* and for deletion meets no undefined access when every queued block is queued
\* for deletion.  When it returns, it leaves the pool exactly as if the
\* activation change had never been requested and the record is deleted: its
\* references are invalid, the record count fell by one per block queued for
\* deletion, the block is on the free list with no flag set, no block outside
\* the list had its Active flag changed, and a LateUpdate that only deletes
\* lowers num_sleeping by exactly the number of sleeping records it deleted.
C6_DeleteDominatesActivation ==
    [][\A p \in StoreIds :
         (\E a \in applied' :
                /\ a[1] = p
                /\ PENDING_DELETE \in a[3]
                /\ a[3] \cap {PENDING_ACTIVE, PENDING_SLEEP} # {})
            => /\ (QueuedBy(p)' = DeletedBy(p)') => pools'[p].ub = "none"
               /\ pools'[p].ub # "crash"
                   => /\ \E outcome \in UbOutcomes :
                           pools'[p] = LateUpdateLoop(
                               WithoutActivationRequests(pools[p]), outcome)
                      /\ \A r \in Records :
                           (/\ IsValid(refs[r]) /\ refs[r].pool = p
                            /\ refs[r].context \in DeletedBy(p)')
                              => ~ IsValid(refs[r])'
                      /\ Count(pools'[p])
                            = Count(pools[p]) - Cardinality(DeletedBy(p)')
                      /\ \A b \in DeletedBy(p)' :
                           /\ pools'[p].blocks[b].flags = {}
                           /\ b \in FreeBlocks(pools'[p])
                      /\ \A b \in Blocks \ QueuedBy(p)' :
                           IsComponentActive(pools'[p].blocks[b])
                               = IsComponentActive(pools[p].blocks[b])
                      /\ (QueuedBy(p)' = DeletedBy(p)')
                           => pools'[p].num_sleeping = pools[p].num_sleeping
                                 - Cardinality({b \in DeletedBy(p)' :
                                       ~ IsComponentActive(pools[p].blocks[b])})]_vars

\* A LateUpdate has returned that found a block queued to wake and for deletion,
\* and the reference to it is now invalid.
C6_Witness ==
    \E r \in Records :
        /\ refs[r].context # Null
        /\ \E a \in applied :
              /\ a[1] = refs[r].pool /\ a[2] = refs[r].context
              /\ {PENDING_DELETE, PENDING_ACTIVE} \subseteq a[3]
        /\ LateUpdateReturned(r)
        /\ refs[r].tag + 1 = RefBlock(r).tag
        /\ ~ IsValid(refs[r])

\* C7: in every state in which calls are made, the pool that a SetActive or a
\* Delete returning normally leaves behind has the record array, the slot table,
\* both counts, the free list, every block's Active flag, cached pointer and
\* tag, the validity and resolution of every reference and the records Update
\* ticks as they were; it differs in nothing but the pending flags and link of
\* the reference's own block and the head of the pending changes list, on which
\* the block is afterwards whenever a change was requested.
C7_RequestsAreDeferred ==
    Running =>
      \A p \in StoreIds, r \in Records :
        (IsValid(refs[r]) /\ IsPointerValid(pool_addr[p], ContextAddr(refs[r])))
          => LET c == refs[r].context
                 st == pools[p]
                 Frame(st2) ==
                    /\ st2.components = st.components
                    /\ st2.control_table = st.control_table
                    /\ st2.num_active = st.num_active
                    /\ st2.num_sleeping = st.num_sleeping
                    /\ st2.pool_head = st.pool_head
                    /\ FreeBlocks(st2) = FreeBlocks(st)
                    /\ st2.ub = st.ub
                    /\ \A b \in Blocks :
                         /\ st2.blocks[b].component = st.blocks[b].component
                         /\ st2.blocks[b].tag = st.blocks[b].tag
                         /\ IsComponentActive(st2.blocks[b])
                               = IsComponentActive(st.blocks[b])
                         /\ b # c => st2.blocks[b] = st.blocks[b]
                    /\ \A x \in Records :
                         (refs[x].context # Null /\ refs[x].pool = p)
                           => /\ (refs[x].tag
                                    = GetGarbageTag(st2.blocks[refs[x].context]))
                                   = IsValid(refs[x])
                              /\ GetComponentPtr(st2.blocks[refs[x].context])
                                   = GetComponentPtr(st.blocks[refs[x].context])
                    /\ UpdateTicks(st2) = UpdateTicks(st)
                    /\ PendingBlocks(st) \subseteq PendingBlocks(st2)
                    /\ PendingBlocks(st2) \subseteq PendingBlocks(st) \cup {c}
             IN  /\ Frame(DeleteRequest(st, c))
                 /\ PENDING_DELETE \in DeleteRequest(st, c).blocks[c].flags
                 /\ c \in PendingBlocks(DeleteRequest(st, c))
                 /\ \A v \in BOOLEAN :
                      /\ Frame(SetActiveRequest(st, c, v))
                      /\ (v # IsComponentActive(st.blocks[c]))
                           => /\ (IF v THEN PENDING_ACTIVE ELSE PENDING_SLEEP)
                                   \in SetActiveRequest(st, c, v).blocks[c].flags
                              /\ c \in PendingBlocks(SetActiveRequest(st, c, v))

\* A sleeping record and an active record, each with the opposite state
\* requested and queued, both still where they were: the sleeping one is not
\* ticked, the active one is.
C7_Witness ==
    \E r \in Records, x \in Records :
        /\ IsValid(refs[r]) /\ IsValid(refs[x])
        /\ refs[r].pool = refs[x].pool
        /\ RefBlock(r).flags = {PENDING_ACTIVE}
        /\ RefBlock(x).flags = {IS_ACTIVE, PENDING_SLEEP, PENDING_DELETE}
        /\ r \notin UpdateTicks(pools[refs[r].pool])
        /\ x \in UpdateTicks(pools[refs[x].pool])
        /\ err = "none"

\* C8: a Create on a pool holding MAX_COMPONENTS records throws
\* CapacityExceeded and changes nothing of any pool or reference.
C8_CreateAtCapacityFails ==
    [][\A p \in StoreIds, t \in BOOLEAN :
         (Create(p, t) /\ Count(pools[p]) = MAX_COMPONENTS)
            => /\ err' = "CapacityExceeded"
               /\ pools' = pools
               /\ refs' = refs
               /\ created' = created]_vars

\* Create has just failed on a pool that became full again after a deletion
\* and a re-creation on the freed block.
C8_Witness ==
    /\ err = "CapacityExceeded"
    /\ \E p \in StoreIds :
          /\ Count(pools[p]) = MAX_COMPONENTS
          /\ \E b \in Blocks : pools[p].blocks[b].tag > 0
          /\ pools[p].num_sleeping > 0

\* C9: SetActive and Delete called with a null reference, or with a reference
\* whose record is no longer held by its pool (whether or not its block has
\* been reused), throw InvalidHandle and change nothing of any pool.
C9_StaleOrNullHandleRejected ==
    [][\A p \in StoreIds, r \in Records :
         ((refs[r].context = Null \/ ~ Live(r))
            /\ (Delete(p, refs[r]) \/ \E v \in BOOLEAN : SetActive(p, refs[r], v)))
            => /\ err' = "InvalidHandle"
               /\ pools' = pools
               /\ refs' = refs]_vars

\* A call has just thrown InvalidHandle when every reference had been handed
\* out and the only invalid one points to a block that a live record reuses.
C9_Witness ==
    /\ err = "InvalidHandle"
    /\ \E old \in Records, r \in Records :
          /\ old < r
          /\ refs[r].context # Null
          /\ refs[old].pool = refs[r].pool
          /\ refs[old].context = refs[r].context
          /\ ~ IsValid(refs[old])
          /\ \A x \in Records \ {old} : IsValid(refs[x]) /\ Live(x)

\* C10: with two pools, SetActive and Delete called on one pool with a valid
\* reference created by the other throw ForeignHandle and change neither pool.
C10_ForeignHandleRejected ==
    [][\A p \in StoreIds, r \in Records :
         ((refs[r].context # Null /\ Live(r) /\ refs[r].pool # p)
            /\ (Delete(p, refs[r]) \/ \E v \in BOOLEAN : SetActive(p, refs[r], v)))
            => /\ err' = "ForeignHandle"
               /\ pools' = pools
               /\ refs' = refs]_vars

\* A call has just thrown ForeignHandle while both pools held a record.
C10_Witness ==
    /\ err = "ForeignHandle"
    /\ \A p \in StoreIds : Count(pools[p]) > 0

\* C11: a SetActive(h, v) that returns normally on a block not queued for
\* deletion leaves the pool such that the LateUpdate that follows it (free of
\* undefined accesses) ends with the record's Active flag equal to v, the value
\* of the last SetActive call on h.
C11_LastRequestHonored ==
    [][\A p \in StoreIds, r \in Records, v \in BOOLEAN :
         (/\ refs[r].context # Null
          /\ SetActive(p, refs[r], v)
          /\ err' = "none"
          /\ PENDING_DELETE \notin pools'[p].blocks[refs[r].context].flags)
            => \A outcome \in UbOutcomes :
                 (LateUpdateLoop(pools'[p], outcome).ub = "none")
                   => IsComponentActive(
                        LateUpdateLoop(pools'[p], outcome).blocks[refs[r].context])
                          = v]_vars

\* C12: in every state in which calls are made, a SetActive(h, v) that passes
\* both checks and finds the Active flag of h's block equal to v writes back
\* the pool unchanged: no flag of any block, no link, not the pending changes
\* list, whatever is already pending for the block.
C12_SetActiveSameStateIsNoOp ==
    Running =>
      \A p \in StoreIds, r \in Records, v \in BOOLEAN :
        (/\ IsValid(refs[r])
         /\ IsPointerValid(pool_addr[p], ContextAddr(refs[r]))
         /\ v = (IS_ACTIVE \in pools[p].blocks[refs[r].context].flags))
          => /\ SetActiveRequest(pools[p], refs[r].context, v) = pools[p]
             /\ PendingBlocks(SetActiveRequest(pools[p], refs[r].context, v))
                   = PendingBlocks(pools[p])

\* An active record with a sleep and a delete pending beside a sleeping record
\* with a wake pending and an active record with nothing pending: SetActive
\* with the current state of each is a call of the kind C12 is about.
C12_Witness ==
    \E a \in Records, b \in Records, c \in Records :
        /\ IsValid(refs[a]) /\ IsValid(refs[b]) /\ IsValid(refs[c])
        /\ RefBlock(a).flags = {IS_ACTIVE, PENDING_SLEEP, PENDING_DELETE}
        /\ RefBlock(b).flags = {PENDING_ACTIVE}
        /\ RefBlock(c).flags = {IS_ACTIVE}
        /\ Running

\* The references of pool p that are valid: its records created and not yet
\* deleted by a LateUpdate.
LiveRefs(p) == {r \in Records : IsValid(refs[r]) /\ refs[r].pool = p}

\* C13: in every reachable state (so after each LateUpdate), in every pool
\* _num_active_components + _num_sleeping_components is the number of records
\* created and not yet deleted, which is also the number of blocks off the free
\* list; _num_sleeping_components is the number of those with the Active flag
\* clear; neither counter is below 0 and their sum is at most MAX_COMPONENTS.
C13_CountsMatchLiveRecords ==
    \A p \in StoreIds :
        /\ pools[p].num_active + pools[p].num_sleeping
              = Cardinality(LiveRefs(p))
        /\ pools[p].num_active + pools[p].num_sleeping
              = MAX_COMPONENTS - Cardinality(FreeBlocks(pools[p]))
        /\ pools[p].num_sleeping
              = Cardinality({r \in LiveRefs(p) : IS_ACTIVE \notin RefBlock(r).flags})
        /\ pools[p].num_active >= 0
        /\ pools[p].num_sleeping >= 0
        /\ pools[p].num_active + pools[p].num_sleeping <= MAX_COMPONENTS

\* A LateUpdate has just returned that deleted one record and put another to
\* sleep, leaving a sleeping and an active record.
C13_Witness ==
    \E p \in StoreIds :
        /\ \E a \in applied : a[1] = p /\ PENDING_DELETE \in a[3]
        /\ \E a \in applied : a[1] = p /\ a[3] = {IS_ACTIVE, PENDING_SLEEP}
        /\ pools[p].ub = "none"
        /\ pools[p].num_sleeping > 0
        /\ pools[p].num_active > 0
        /\ created = MaxRecords

\* C14: in every reachable state, for every occupied slot i (i < Count),
\* _control_table[i] is a block of the pool that is off the free list and whose
\* cached pointer designates slot i, and no two occupied slots have the same
\* block.
C14_SlotTableBindsBlocks ==
    \A p \in StoreIds :
        LET st == pools[p]
            occupied == {i \in Slots : i < Count(st)}
        IN  /\ \A i \in occupied :
                  /\ st.control_table[i] \in Blocks
                  /\ st.control_table[i] \notin FreeBlocks(st)
                  /\ GetComponentPtr(st.blocks[st.control_table[i]]) = i
            /\ \A i \in occupied, j \in occupied :
                  (i # j) => st.control_table[i] # st.control_table[j]

\* C15: a Create whose component constructor throws leaves every pool, every
\* reference and the record counter exactly as they were (counts, slot table,
\* pending changes list, free list and every block field), and the pool still
\* has room and a free, unflagged block at the head of the free list that no
\* occupied slot is bound to, so that a following Create can succeed.
C15_FailedConstructionRollsBack ==
    [][\A p \in StoreIds :
         (err' = "ConstructorFailed" /\ Create(p, TRUE))
            => /\ pools' = pools
               /\ refs' = refs
               /\ created' = created
               /\ FreeBlocks(pools'[p]) = FreeBlocks(pools[p])
               /\ PendingBlocks(pools'[p]) = PendingBlocks(pools[p])
               /\ Count(pools'[p]) < MAX_COMPONENTS
               /\ pools'[p].pool_head \in Blocks
               /\ pools'[p].blocks[pools'[p].pool_head].flags = {}
               /\ \A i \in Slots :
                    (i < Count(pools'[p]))
                      => pools'[p].control_table[i] # pools'[p].pool_head]_vars

\* A construction has just failed in a pool one record short of full, with a
\* sleeping record, a change pending and a block already on its second use.
C15_Witness ==
    /\ err = "ConstructorFailed"
    /\ \E p \in StoreIds :
          /\ Count(pools[p]) = MAX_COMPONENTS - 1
          /\ pools[p].num_sleeping > 0
          /\ pools[p].pending_changes_head # Null
          /\ \E b \in Blocks : pools[p].blocks[b].tag > 0

\* References r and x resolve to one and the same record held by the pool.
SameLiveRecord(r, x) ==
    /\ r = x
    /\ Live(r)
    /\ Get(refs[r]).ptr \in Slots
    /\ Get(refs[r]).ptr < Count(pools[refs[r].pool])
    /\ pools[refs[r].pool].components[Get(refs[r]).ptr] = r

\* C16: in every reachable state (before and after every LateUpdate), comparing
\* two valid references (a reference with itself stands for a copy) returns
\* true exactly when they resolve to the same record held by the pool, and
\* comparing when either is null or stale throws.
C16_EqualityByResolvedRecord ==
    \A r \in Records, x \in Records :
        IF IsValid(refs[r]) /\ IsValid(refs[x])
        THEN /\ ~ Equals(refs[r], refs[x]).throws
             /\ Equals(refs[r], refs[x]).value <=> SameLiveRecord(r, x)
        ELSE Equals(refs[r], refs[x]).throws

\* C17: in every reachable state, every occupied slot holds a record whose
\* reference is valid, every such record is in an occupied slot, and the slot
\* is below _num_sleeping_components exactly when the Active flag of the
\* record's block is clear.
C17_PartitionBySleepingCount ==
    \A p \in StoreIds :
        LET st == pools[p]
        IN  /\ \A i \in Slots :
                  (i < Count(st))
                    => /\ st.components[i] \in LiveRefs(p)
                       /\ (i < st.num_sleeping)
                             <=> (IS_ACTIVE \notin RefBlock(st.components[i]).flags)
            /\ \A r \in LiveRefs(p) :
                  \E i \in Slots : i < Count(st) /\ st.components[i] = r

\* The LateUpdate of pool p just taken moved the record of block b from slot i
\* to slot t by one swap with the record there: records, slot table entries
\* and cached pointers of the two slots exchanged, every other slot and every
\* other block's cached pointer as before, no undefined access.
MovedBySwap(p, b, i, t) ==
    LET st == pools[p]
        st2 == pools'[p]
    IN  /\ st2.ub = "none"
        /\ st2.components[t] = st.components[i]
        /\ st2.components[i] = st.components[t]
        /\ st2.control_table[t] = b
        /\ st2.control_table[i] = st.control_table[t]
        /\ st2.blocks[b].component = t
        /\ st2.blocks[st.control_table[t]].component = i
        /\ \A j \in Slots \ {i, t} :
              /\ st2.components[j] = st.components[j]
              /\ st2.control_table[j] = st.control_table[j]
        /\ \A c \in Blocks \ {b, st.control_table[t]} :
              st2.blocks[c].component = st.blocks[c].component

\* C18: a LateUpdate whose list holds a single block, queued to sleep, of an
\* active record at slot i with _num_sleeping_components <= i < Count, moves
\* the record to slot old _num_sleeping_components by one swap, raises
\* _num_sleeping_components by one and lowers _num_active_components by one,
\* and clears the Active flag.
C18_SleepMovesToBoundary ==
    [][\A p \in StoreIds, b \in Blocks :
         (/\ applied' = {<<p, b, {IS_ACTIVE, PENDING_SLEEP}>>}
          /\ pools[p].blocks[b].component \in Slots
          /\ pools[p].blocks[b].component >= pools[p].num_sleeping
          /\ pools[p].blocks[b].component < Count(pools[p]))
            => /\ MovedBySwap(p, b, pools[p].blocks[b].component,
                              pools[p].num_sleeping)
               /\ pools'[p].num_sleeping = pools[p].num_sleeping + 1
               /\ pools'[p].num_active = pools[p].num_active - 1
               /\ pools'[p].blocks[b].flags = {}]_vars

\* C19: a LateUpdate whose list holds a single block, queued to wake, of a
\* sleeping record at slot i < _num_sleeping_components, moves the record to
\* slot _num_sleeping_components - 1 by one swap, lowers
\* _num_sleeping_components by one and raises _num_active_components by one,
\* and sets the Active flag.
C19_WakeMovesToBoundary ==
    [][\A p \in StoreIds, b \in Blocks :
         (/\ applied' = {<<p, b, {PENDING_ACTIVE}>>}
          /\ pools[p].blocks[b].component \in Slots
          /\ pools[p].blocks[b].component < pools[p].num_sleeping)
            => /\ MovedBySwap(p, b, pools[p].blocks[b].component,
                              pools[p].num_sleeping - 1)
               /\ pools'[p].num_sleeping = pools[p].num_sleeping - 1
               /\ pools'[p].num_active = pools[p].num_active + 1
               /\ pools'[p].blocks[b].flags = {IS_ACTIVE}]_vars

\* A LateUpdate has just woken one of three sleeping records: it now sits in
\* slot 2, the first slot of the active block, bound to its block.
C19_Witness ==
    \E p \in StoreIds, b \in Blocks :
        /\ applied = {<<p, b, {PENDING_ACTIVE}>>}
        /\ pools[p].ub = "none"
        /\ pools[p].num_sleeping = 2
        /\ pools[p].num_active = 1
        /\ pools[p].blocks[b].component = 2
        /\ pools[p].control_table[2] = b
        /\ pools[p].blocks[b].flags = {IS_ACTIVE}

\* C20: a Create that returns a reference puts the new record in slot Count
\* and moves no other record; the block it takes was on the free list and is
\* off it afterwards, caches that slot, has IS_ACTIVE as its only flag and is
\* the slot's table entry; _num_active_components grows by one;
\* _num_sleeping_components, the pending changes list, every other block,
\* table entry and pool are unchanged (also with changes pending); the
\* reference returned is valid and resolves to the new slot.
C20_CreateAppends ==
    [][\A p \in StoreIds :
         (created' = created + 1 /\ Create(p, FALSE))
            => LET st == pools[p]
                   st2 == pools'[p]
                   n == st.num_active + st.num_sleeping
                   cb == st2.control_table[n]
               IN  /\ n < MAX_COMPONENTS
                   /\ st2.components[n] = created'
                   /\ \A j \in Slots \ {n} :
                        /\ st2.components[j] = st.components[j]
                        /\ st2.control_table[j] = st.control_table[j]
                   /\ cb \in FreeBlocks(st)
                   /\ FreeBlocks(st2) = FreeBlocks(st) \ {cb}
                   /\ st2.blocks[cb].flags = {IS_ACTIVE}
                   /\ st2.blocks[cb].component = n
                   /\ \A b \in Blocks \ {cb} : st2.blocks[b] = st.blocks[b]
                   /\ st2.num_active = st.num_active + 1
                   /\ st2.num_sleeping = st.num_sleeping
                   /\ st2.pending_changes_head = st.pending_changes_head
                   /\ PendingBlocks(st2) = PendingBlocks(st)
                   /\ \A q \in StoreIds \ {p} : pools'[q] = pools[q]
                   /\ refs'[created'].pool = p
                   /\ refs'[created'].context = cb
                   /\ \E id \in Records :
                        /\ id = created'
                        /\ IsValid(refs[id])'
                        /\ Get(refs[id])'.ptr = n
                   /\ \A r \in Records \ {created'} : refs'[r] = refs[r]
                   /\ err' = "none"]_vars

\* The last record was created on a block in its second use, while a sleeping
\* record had a wake pending and an active one a delete pending.
C20_Witness ==
    /\ created = MaxRecords
    /\ err = "none" /\ applied = {} /\ ticked = {}
    /\ IsValid(refs[created])
    /\ refs[created].tag > 0
    /\ RefBlock(created).flags = {IS_ACTIVE}
    /\ Get(refs[created]).ptr = Count(pools[refs[created].pool]) - 1
    /\ \E a \in Records, b \in Records :
          /\ IsValid(refs[a]) /\ IsValid(refs[b])
          /\ RefBlock(a).flags = {PENDING_ACTIVE}
          /\ RefBlock(b).flags = {IS_ACTIVE, PENDING_DELETE}

\* The number of blocks met following _next from b before nullptr, or
\* MAX_COMPONENTS + 1 when nullptr is not met within MAX_COMPONENTS blocks.
RECURSIVE ListLength(_, _, _)
ListLength(st, b, fuel) ==
    IF b = Null THEN 0
    ELSE IF b \notin Blocks \/ fuel = 0 THEN MAX_COMPONENTS + 1
    ELSE LET rest == ListLength(st, st.blocks[b].next, fuel - 1)
         IN  IF rest > MAX_COMPONENTS THEN rest ELSE rest + 1

\* The blocks bound to the records of pool p created and not yet deleted.
BoundBlocks(p) == {refs[r].context : r \in LiveRefs(p)}

\* C21: in every reachable state, in every pool the free list ends, holds
\* MAX_COMPONENTS - Count blocks, each once, and they are exactly the blocks
\* not bound to a live record; so _pool_head is not null while Count is below
\* MAX_COMPONENTS and no call has thrown PoolExhausted.
C21_FreeListIsTheUnboundBlocks ==
    /\ err # "PoolExhausted"
    /\ \A p \in StoreIds :
          LET st == pools[p]
          IN  /\ ListLength(st, st.pool_head, MAX_COMPONENTS)
                    = MAX_COMPONENTS - (st.num_active + st.num_sleeping)
              /\ Cardinality(FreeBlocks(st))
                    = MAX_COMPONENTS - (st.num_active + st.num_sleeping)
              /\ FreeBlocks(st) = Blocks \ BoundBlocks(p)
              /\ (st.num_active + st.num_sleeping < MAX_COMPONENTS)
                    => st.pool_head \in Blocks

\* A LateUpdate has just deleted records, leaving one record and two free
\* blocks, the block at the head of the free list having been bound before.
C21_Witness ==
    \E p \in StoreIds :
        /\ \E a \in applied : a[1] = p /\ PENDING_DELETE \in a[3]
        /\ Count(pools[p]) = MAX_COMPONENTS - 2
        /\ Cardinality(FreeBlocks(pools[p])) = 2
        /\ pools[p].pool_head \in Blocks
        /\ pools[p].blocks[pools[p].pool_head].tag > 0
        /\ \E r \in LiveRefs(p) : refs[r].tag > 0

\* C22: for the block pool used on its own, an Allocate that returns gives the
\* block at the head of the free list, which the client does not hold; Allocate
\* throws PoolExhausted, changing nothing, exactly when the client holds all
\* MAX_COMPONENTS blocks; and after Deallocate of b the head of the free list
\* is b with the old free list behind it, so the next Allocate returns b.
C22_BlockPoolIsAStack ==
    [][\A p \in StoreIds :
         /\ PoolAllocate(p)
              => /\ (err' = "PoolExhausted")
                       <=> (Cardinality(Allocated(p)) = MAX_COMPONENTS)
                 /\ (err' = "PoolExhausted")
                       => (pools' = pools /\ refs' = refs)
                 /\ (err' = "none")
                       => /\ refs'[created'].context = pools[p].pool_head
                          /\ refs'[created'].context \notin Allocated(p)
                          /\ Allocated(p)' = Allocated(p) \cup {pools[p].pool_head}
                          /\ FreeBlocks(pools'[p])
                                = FreeBlocks(pools[p]) \ {pools[p].pool_head}
         /\ \A r \in Records :
              (PoolDeallocate(p, r) /\ err' = "none")
                 => /\ pools'[p].pool_head = refs[r].context
                    /\ Allocate(pools'[p]).pool_head = pools[p].pool_head
                    /\ FreeBlocks(pools'[p])
                          = FreeBlocks(pools[p]) \cup {refs[r].context}
                    /\ Allocated(p)' = Allocated(p) \ {refs[r].context}]_vars

\* Allocate has just thrown PoolExhausted with all blocks held, one of them
\* handed out a second time after having been given back.
C22_Witness ==
    /\ err = "PoolExhausted"
    /\ created = MaxRecords
    /\ \E p \in StoreIds : Cardinality(Allocated(p)) = MAX_COMPONENTS

\* C23: in every reachable state in which no LateUpdate was cut short by a
\* fault, in every pool the pending changes list ends, holds each of its blocks
\* once, and its blocks are exactly the blocks bound to a live record that have
\* PENDING_ACTIVE, PENDING_SLEEP or PENDING_DELETE set; no other block has such
\* a flag; and when the last call was a LateUpdate of the pool that found the
\* list non-empty, the list is empty and no block has a pending flag.
C23_PendingListMatchesFlags ==
    \A p \in StoreIds :
        LET st == pools[p]
            flagged == {b \in Blocks :
                          st.blocks[b].flags
                            \cap {PENDING_ACTIVE, PENDING_SLEEP, PENDING_DELETE} # {}}
        IN  (st.ub # "crash")
              => /\ PendingBlocks(st) = flagged
                 /\ flagged \subseteq BoundBlocks(p)
                 /\ ListLength(st, st.pending_changes_head, MAX_COMPONENTS)
                       = Cardinality(flagged)
                 /\ (\E a \in applied : a[1] = p)
                       => (st.pending_changes_head = Null /\ flagged = {})

\* Every block of a pool is queued, one of them with two requests (a wake and
\* a delete, so its record was put to sleep by an earlier LateUpdate) and one
\* with a sleep request.
C23_Witness ==
    \E p \in StoreIds :
        /\ Cardinality(PendingBlocks(pools[p])) = MAX_COMPONENTS
        /\ \E b \in Blocks :
              pools[p].blocks[b].flags = {PENDING_ACTIVE, PENDING_DELETE}
        /\ \E b \in Blocks :
              pools[p].blocks[b].flags = {IS_ACTIVE, PENDING_SLEEP}
        /\ pools[p].ub = "none"

\* The pending changes list from its head on, as a sequence.
RECURSIVE ListSeq(_, _, _)
ListSeq(st, b, fuel) ==
    IF b \notin Blocks \/ fuel = 0 THEN << >>
    ELSE <<b>> \o ListSeq(st, st.blocks[b].next, fuel - 1)

PendingSeq(st) == ListSeq(st, st.pending_changes_head, MAX_COMPONENTS)

\* C24: a call other than LateUpdate leaves the pending changes list as it is
\* or puts one block that was not on it in front of it, so the list from its
\* head on is the reverse of the order of enqueueing; and a LateUpdate that
\* finds blocks on the list applies the request of every one of them, once
\* each, in the order of the list from its head on, none of them being a block
\* of the free list at the start, and leaves the list empty.
C24_LateUpdateProcessesAllLifo ==
    [][\A p \in StoreIds :
         LET st == pools[p]
         IN  /\ (applied' = {})
                 => \/ PendingSeq(pools'[p]) = PendingSeq(st)
                    \/ \E b \in Blocks \ PendingBlocks(st) :
                          PendingSeq(pools'[p]) = <<b>> \o PendingSeq(st)
             /\ (\E a \in applied' : a[1] = p)
                 => /\ Len(PendingSeq(st)) = Cardinality(PendingBlocks(st))
                    /\ PendingBlocks(st) \cap FreeBlocks(st) = {}
                    /\ \A outcome \in UbOutcomes :
                          (pools'[p] = LateUpdateLoop(st, outcome))
                            => /\ LateUpdateOrder(st, outcome) = PendingSeq(st)
                               /\ pools'[p].pending_changes_head = Null
    ]_vars

\* C25: across every call, the tag of every block stays or grows by exactly 1;
\* it grows exactly when the call takes the block from a record to the free
\* list, which for a LateUpdate that returns is exactly when the call found the
\* block queued for deletion; so Create (binding the block), SetActive, Delete,
\* Update, waking, sleeping and swaps leave it alone, and a reference that is
\* invalid stays invalid.
C25_TagCountsDeletions ==
    [][\A p \in StoreIds :
         /\ IF pools'[p] = pools[p]
            THEN pools'[p].ub = "crash" \/ DeletedBy(p)' = {}
            ELSE \A b \in Blocks :
                   LET old == GetGarbageTag(pools[p].blocks[b])
                       new == GetGarbageTag(pools'[p].blocks[b])
                   IN  /\ new >= old
                       /\ new \in {old, old + 1}
                       /\ (new = old + 1)
                             <=> (b \notin FreeBlocks(pools[p])
                                    /\ b \in FreeBlocks(pools'[p]))
                       /\ ((\E a \in applied' : a[1] = p)
                              /\ pools'[p].ub # "crash")
                             => ((new = old + 1) <=> b \in DeletedBy(p)')
                       /\ (applied' = {}) => new = old
         /\ \A r \in Records :
               (refs[r].context # Null /\ refs[r].pool = p /\ ~ IsValid(refs[r]))
                  => (refs'[r] = refs[r] /\ ~ IsValid(refs[r])')]_vars

\* A block on its third use: two records bound to it were deleted, the
\* reference to the first of them is invalid and the reference to the record
\* now bound to it is valid.
C25_Witness ==
    \E old \in Records, r \in Records :
        /\ refs[old].context # Null /\ refs[r].context # Null
        /\ refs[old].pool = refs[r].pool
        /\ refs[old].context = refs[r].context
        /\ RefBlock(old).tag = refs[old].tag + 2
        /\ ~ IsValid(refs[old])
        /\ IsValid(refs[r]) /\ Live(r)

\* C26: in every state in which calls are made, whatever an undefined swap
\* does, every index a LateUpdate of any pool passes to SwapComponents and the
\* index of every record it destroys is at least 0 and below the number of
\* occupied slots at that moment.
C26_SwapIndicesInBounds ==
    Running =>
      \A p \in StoreIds, outcome \in UbOutcomes :
        \A x \in LateUpdateIndices(pools[p], outcome) :
            x[1] >= 0 /\ x[1] < x[2]

\* C27: in every reachable state, no block of any pool has PENDING_ACTIVE and
\* PENDING_SLEEP both set; a block with PENDING_SLEEP has IS_ACTIVE set and a
\* block with PENDING_ACTIVE has it clear; so for every block with an
\* activation change pending, the state LateUpdate reads off the flags is the
\* opposite of the block's current state.
C27_PendingActivationIsOpposite ==
    \A p \in StoreIds, b \in Blocks :
        LET blk == pools[p].blocks[b]
        IN  /\ ~ ({PENDING_ACTIVE, PENDING_SLEEP} \subseteq blk.flags)
            /\ (PENDING_SLEEP \in blk.flags) => IsComponentActive(blk)
            /\ (PENDING_ACTIVE \in blk.flags) => ~ IsComponentActive(blk)
            /\ IsPendingActiveStateChange(blk)
                  => GetPendingActiveStateChange(blk) = ~ IsComponentActive(blk)

\* A sleeping record with a wake pending beside an active record with a sleep
\* pending, both on the pending changes list, the last call having returned
\* normally and not been a LateUpdate or an Update that ticked a record.
C27_Witness ==
    \E p \in StoreIds, a \in Blocks, b \in Blocks :
        /\ pools[p].blocks[a].flags = {PENDING_ACTIVE}
        /\ pools[p].blocks[b].flags = {IS_ACTIVE, PENDING_SLEEP}
        /\ a \in PendingBlocks(pools[p]) /\ b \in PendingBlocks(pools[p])
        /\ err = "none" /\ applied = {} /\ ticked = {}

\* The orders in which the blocks of a sequence can stand.
Orders(seq) ==
    LET n == Len(seq)
    IN  {[i \in 1 .. n |-> seq[f[i]]] :
            f \in {g \in [1 .. n -> 1 .. n] :
                      \A i \in 1 .. n, j \in 1 .. n : g[i] = g[j] => i = j}}

\* Pool st with the blocks of its pending changes list linked in the order seq:
\* what SetActive and Delete leave when the first requests of the handles
\* arrive in the reverse of that order.
Relinked(st, seq) ==
    [st EXCEPT
       !.pending_changes_head = IF Len(seq) = 0 THEN Null ELSE seq[1],
       !.blocks = [b \in Blocks |->
            IF \E i \in 1 .. Len(seq) : seq[i] = b
            THEN [st.blocks[b] EXCEPT !.next =
                    LET i == CHOOSE k \in 1 .. Len(seq) : seq[k] = b
                    IN  IF i = Len(seq) THEN Null ELSE seq[i + 1]]
            ELSE st.blocks[b]]]

\* What a client of pool p sees of state st of the pool: whether the last call
\* returned, the records held, the references that are valid, the records
\* whose block has the Active flag, and the records Update ticks.
Observed(p, st) ==
    LET valid == {r \in Records :
                     /\ refs[r].context # Null /\ refs[r].pool = p
                     /\ refs[r].tag = GetGarbageTag(st.blocks[refs[r].context])}
    IN  [returned |-> st.ub # "crash",
         held |-> {st.components[i] : i \in {j \in Slots : j < Count(st)}},
         valid |-> valid,
         active |-> {r \in valid :
                        IsComponentActive(st.blocks[refs[r].context])},
         ticks |-> UpdateTicks(st)]

\* C28: in every state in which calls are made, exchanging two adjacent
\* requests of handles of different blocks leaves every block's flags and the
\* set of queued blocks the same and only the order of the pending changes
\* list different; and whatever the order of that list, a LateUpdate returns
\* and leaves the same records held, the same references valid, the same
\* records active and the same records ticked by Update.
C28_OrderAcrossHandlesIsImmaterial ==
    Running =>
      \A p \in StoreIds :
        LET st == pools[p]
            Requests == {[kind |-> "delete", value |-> FALSE]}
                          \cup {[kind |-> "set", value |-> v] : v \in BOOLEAN}
            Do(s, b, q) == IF q.kind = "delete" THEN DeleteRequest(s, b)
                           ELSE SetActiveRequest(s, b, q.value)
        IN  /\ \A b \in BoundBlocks(p), c \in BoundBlocks(p) :
                  (b # c) =>
                    \A q1 \in Requests, q2 \in Requests :
                       LET one == Do(Do(st, b, q1), c, q2)
                           other == Do(Do(st, c, q2), b, q1)
                       IN  /\ PendingBlocks(one) = PendingBlocks(other)
                           /\ other = Relinked(one, PendingSeq(other))
            /\ \A seq \in Orders(PendingSeq(st)) :
                  \A o1 \in UbOutcomes, o2 \in UbOutcomes :
                     Observed(p, LateUpdateLoop(Relinked(st, seq), o1))
                        = Observed(p, LateUpdateLoop(st, o2))

====
